---- MODULE Spec2Model ----
(***************************************************************************)
(* A model of src/system_info.rs: the unit scaler (get_exp / get_unit),    *)
(* the snapshot builder (SystemInfo::get_system_info) and the GPU          *)
(* discovery chain with its five probes.                                   *)
(*                                                                         *)
(* u64 values are kept at their width as little-endian sequences of W      *)
(* base-1024 limbs (limb i has weight 1024^(i-1)), because the magnitudes  *)
(* the code handles (bytes of RAM, bytes of VRAM) exceed the range of the  *)
(* model checker's integers.  Text is a sequence of one-character strings, *)
(* so that contains / find / trim / split / parse are modelled by what     *)
(* they do.                                                                *)
(***************************************************************************)
EXTENDS Integers, Sequences, FiniteSets, TLC

VARIABLES
    platform,   \* the cfg(target_os) the binary was built for
    pc,         \* position of the get_system_info call
    ram,        \* what the OS metrics provider reports: [total, used, cpus]
    invoked,    \* the probes invoked so far in this call, in order
    io,         \* the input the most recent probe consumed
    ret,        \* what the most recent probe returned
    returned,   \* what each probe that has returned in this call returned, in order
    gpu_info,   \* the result of GpuInfo::get_gpu_info of this call
    drm,        \* the Linux probe's walk over /sys/class/drm
    snapshot,   \* the SystemInfo the call returned
    m,          \* SpecScale: the magnitude handed to the unit scaler
    scaled      \* SpecScale: the scaler's result for m

vars == <<platform, pc, ram, invoked, io, ret, returned, gpu_info, drm, snapshot, m, scaled>>

----------------------------------------------------------------------------
(* Option<T> *)

None == [some |-> FALSE]

Some(v) == [some |-> TRUE, val |-> v]

----------------------------------------------------------------------------
(* u64 arithmetic on limbs *)

\* limbs per number: 10 limbs = 100 bits, room for 100 * (u64 * 2^20)
W == 10

Limbs == 1..W

Zero == [i \in Limbs |-> 0]

\* the number n, for 0 <= n < 2^31
FromNat(n) ==
    [i \in Limbs |->
        CASE i = 1 -> n % 1024
          [] i = 2 -> (n \div 1024) % 1024
          [] i = 3 -> (n \div 1048576) % 1024
          [] i = 4 -> n \div 1073741824
          [] OTHER -> 0]

\* base^k as a number: u64::pow(base, k) for base = 1024
Pow1024(k) == [i \in Limbs |-> IF i = k + 1 THEN 1 ELSE 0]

Gt(a, b) == \E i \in Limbs : a[i] > b[i] /\ \A j \in (i + 1)..W : a[j] = b[j]

Leq(a, b) == ~Gt(a, b)

IsZero(a) == \A i \in Limbs : a[i] = 0

\* c * 1024^k + d for d in {-1, 0, 1}
Around(c, k, d) ==
    [i \in Limbs |->
        CASE d = 0 -> IF i = k + 1 THEN c ELSE 0
          [] d = 1 -> IF k = 0 THEN FromNat(c + 1)[i]
                      ELSE IF i = k + 1 THEN c ELSE IF i = 1 THEN 1 ELSE 0
          [] OTHER -> IF i = k + 1 THEN c - 1 ELSE IF i <= k THEN 1023 ELSE 0]

\* a fits in 64 bits: limb 7 holds bits 60..69
IsU64(a) == a[7] < 16 /\ \A i \in 8..W : a[i] = 0

U64Max == [i \in Limbs |-> IF i <= 6 THEN 1023 ELSE IF i = 7 THEN 15 ELSE 0]

RECURSIVE MulAddFrom(_, _, _, _)
MulAddFrom(a, c, carry, i) ==
    IF i > W THEN <<>>
    ELSE LET t == a[i] * c + carry
         IN  <<t % 1024>> \o MulAddFrom(a, c, t \div 1024, i + 1)

\* a * c + d for small c, d (no overflow of the W limbs for a < 2^84, c <= 1024)
MulAdd(a, c, d) == MulAddFrom(a, c, d, 1)

\* a / 1024^e, truncated
ShiftRight(a, e) == [i \in Limbs |-> IF i + e <= W THEN a[i + e] ELSE 0]

\* a * 1024^e, exact
ShiftLeft(a, e) == [i \in Limbs |-> IF i > e THEN a[i - e] ELSE 0]

\* the low 64 bits of a
WrapU64(a) == [i \in Limbs |-> IF i <= 6 THEN a[i] ELSE IF i = 7 THEN a[i] % 16 ELSE 0]

\* min(a, cap) as an integer, for cap < 2^20
ToNatSat(a, cap) ==
    IF \E i \in 3..W : a[i] # 0 THEN cap
    ELSE IF a[1] + 1024 * a[2] > cap THEN cap ELSE a[1] + 1024 * a[2]

----------------------------------------------------------------------------
(* str methods, on sequences of one-character strings *)

IsWhitespace(c) == c \in {" ", "\n", "\t", "\r"}

Digits == <<"0", "1", "2", "3", "4", "5", "6", "7", "8", "9">>

IsDigit(c) == \E d \in 1..10 : Digits[d] = c

DigitVal(c) == (CHOOSE d \in 1..10 : Digits[d] = c) - 1

Upper == <<"A", "B", "C", "D", "E", "F", "G", "H", "I", "J", "K", "L", "M",
           "N", "O", "P", "Q", "R", "S", "T", "U", "V", "W", "X", "Y", "Z">>

Lower == <<"a", "b", "c", "d", "e", "f", "g", "h", "i", "j", "k", "l", "m",
           "n", "o", "p", "q", "r", "s", "t", "u", "v", "w", "x", "y", "z">>

LowerChar(c) ==
    IF \E k \in 1..26 : Upper[k] = c
    THEN Lower[CHOOSE k \in 1..26 : Upper[k] = c]
    ELSE c

\* str::to_lowercase
ToLowercase(s) == [i \in 1..Len(s) |-> LowerChar(s[i])]

MatchesAt(s, p, i) ==
    /\ i + Len(p) - 1 <= Len(s)
    /\ \A k \in 1..Len(p) : s[i + k - 1] = p[k]

\* str::contains
Contains(s, p) == \E i \in 1..Len(s) : MatchesAt(s, p, i)

\* str::find: the 1-based position of the first match, 0 when there is none
Find(s, p) ==
    IF Contains(s, p)
    THEN CHOOSE i \in 1..Len(s) :
            MatchesAt(s, p, i) /\ \A j \in 1..(i - 1) : ~MatchesAt(s, p, j)
    ELSE 0

\* the text from position i on (&s[i..])
From(s, i) == SubSeq(s, i, Len(s))

\* str::trim_start_matches(c)
TrimStartMatches(s, c) ==
    IF \A i \in 1..Len(s) : s[i] = c THEN <<>>
    ELSE From(s, CHOOSE i \in 1..Len(s) : s[i] # c /\ \A j \in 1..(i - 1) : s[j] = c)

\* str::trim_end_matches(c)
TrimEndMatches(s, c) ==
    IF \A i \in 1..Len(s) : s[i] = c THEN <<>>
    ELSE SubSeq(s, 1, CHOOSE i \in 1..Len(s) :
                         s[i] # c /\ \A j \in (i + 1)..Len(s) : s[j] = c)

\* str::trim
Trim(s) ==
    IF \A i \in 1..Len(s) : IsWhitespace(s[i]) THEN <<>>
    ELSE LET a == CHOOSE i \in 1..Len(s) :
                    ~IsWhitespace(s[i]) /\ \A j \in 1..(i - 1) : IsWhitespace(s[j])
             b == CHOOSE i \in 1..Len(s) :
                    ~IsWhitespace(s[i]) /\ \A j \in (i + 1)..Len(s) : IsWhitespace(s[j])
         IN  SubSeq(s, a, b)

\* str::split(c), collected
RECURSIVE Split(_, _)
Split(s, c) ==
    LET k == Find(s, <<c>>)
    IN  IF k = 0 THEN <<s>>
        ELSE <<SubSeq(s, 1, k - 1)>> \o Split(From(s, k + 1), c)

\* str::lines: split at "\n", drop one trailing "\r" of each line, and no
\* final empty line
RECURSIVE Lines(_)
Lines(s) ==
    IF s = <<>> THEN <<>>
    ELSE LET k == Find(s, <<"\n">>)
             raw == IF k = 0 THEN s ELSE SubSeq(s, 1, k - 1)
             line == IF raw # <<>> /\ raw[Len(raw)] = "\r"
                     THEN SubSeq(raw, 1, Len(raw) - 1) ELSE raw
         IN  <<line>> \o (IF k = 0 THEN <<>> ELSE Lines(From(s, k + 1)))

RECURSIVE ParseDigits(_, _)
ParseDigits(s, acc) ==
    IF ~acc.some \/ s = <<>> THEN acc
    ELSE IF ~IsDigit(s[1]) THEN None
    ELSE LET n == MulAdd(acc.val, 10, DigitVal(s[1]))
         IN  ParseDigits(Tail(s), IF IsU64(n) THEN Some(n) ELSE None)

\* str::parse::<u64>: an optional "+", then one or more decimal digits, and no
\* overflow of 64 bits
ParseU64(s) ==
    LET d == IF s # <<>> /\ s[1] = "+" THEN Tail(s) ELSE s
    IN  IF d = <<>> THEN None ELSE ParseDigits(d, Some(Zero))

----------------------------------------------------------------------------
(* SystemInfo: the unit scaler *)

\* let base = 1024
Base == 1024

\* u64::pow(base, k); base is 1024 at every call
pow(base, k) == Pow1024(k)

get_unit(exp) ==
    CASE exp = 0 -> <<"B">>
      [] exp = 1 -> <<"K", "B">>
      [] exp = 2 -> <<"M", "B">>
      [] exp = 3 -> <<"G", "B">>
      [] exp = 4 -> <<"T", "B">>
      [] OTHER -> <<"U", "B">>

get_exp_ge(num, base) ==
    CASE ~Gt(pow(base, 4), num) -> 4
      [] ~Gt(pow(base, 3), num) -> 3
      [] ~Gt(pow(base, 2), num) -> 2
      [] ~Gt(FromNat(base), num) -> 1
      [] OTHER -> 0

get_exp_capped3(num, base) ==
    CASE Gt(num, pow(base, 3)) -> 3
      [] Gt(num, pow(base, 2)) -> 2
      [] Gt(num, FromNat(base)) -> 1
      [] OTHER -> 0

\* the match arms are tried top down; the first guard that holds decides
get_exp(num, base) ==
    CASE Gt(num, pow(base, 4)) -> 4
      [] Gt(num, pow(base, 3)) -> 3
      [] Gt(num, pow(base, 2)) -> 2
      [] Gt(num, FromNat(base)) -> 1
      [] OTHER -> 0

U16Max == 65535

U8Max == 255

\* (num as f64 / u64::pow(base, exp) as f64 * 10.0) as u16.  The division is by
\* a power of two, so it is exact; the product by 10.0 is rounded to 53 bits,
\* which cannot carry a value below an integer up to it while the product is
\* under 2^16 (the gap to the integer is at least 2^-39 for exp <= 4, half an
\* ulp at most 2^-38); from 2^16 on, and for every num >= 2^53, the cast
\* saturates.  So the field is min(65535, floor(10 * num / base^exp)).
scale(num, exp, base) == ToNatSat(ShiftRight(MulAdd(num, 10, 0), exp), U16Max)

\* what the snapshot stores for one magnitude: ram_max / ram_unit, or
\* vram_max / vram_unit
scaled_magnitude(num, base) ==
    LET exp == get_exp(num, base)
    IN  [exp |-> exp, value |-> scale(num, exp, base), unit |-> get_unit(exp)]

----------------------------------------------------------------------------
(* GpuInfo and the NVIDIA probe *)

GpuInfo(gpu_usage, vram_max, vram_used) ==
    [gpu_usage |-> gpu_usage, vram_max |-> vram_max, vram_used |-> vram_used]

\* the documents nvidia-smi -q -x can print, as the tree xmltojson makes of
\* them: the three leaves the probe reads under nvidia_smi_log.gpu, each
\* present with its text or absent
NvidiaDocs ==
  <<
    \* 1: gpu_util 50 %, total 8192 MiB, used 4096 MiB
    [gpu_util |-> Some(<<"5", "0", " ", "%">>),
     total |-> Some(<<"8", "1", "9", "2", " ", "M", "i", "B">>),
     used |-> Some(<<"4", "0", "9", "6", " ", "M", "i", "B">>)],
    \* 2: gpu_util 0 %, total 2048 MiB, used 3072 MiB
    [gpu_util |-> Some(<<"0", " ", "%">>),
     total |-> Some(<<"2", "0", "4", "8", " ", "M", "i", "B">>),
     used |-> Some(<<"3", "0", "7", "2", " ", "M", "i", "B">>)],
    \* 3: gpu_util N/A, total 8192 MiB, used 100 MiB
    [gpu_util |-> Some(<<"N", "/", "A">>),
     total |-> Some(<<"8", "1", "9", "2", " ", "M", "i", "B">>),
     used |-> Some(<<"1", "0", "0", " ", "M", "i", "B">>)],
    \* 4: gpu_util None, total None, used None
    [gpu_util |-> None,
     total |-> None,
     used |-> None],
    \* 5: gpu_util 7 %, total 0 MiB, used 0 MiB
    [gpu_util |-> Some(<<"7", " ", "%">>),
     total |-> Some(<<"0", " ", "M", "i", "B">>),
     used |-> Some(<<"0", " ", "M", "i", "B">>)],
    \* 6: gpu_util 99 %, total 1000 MiB, used 290 MiB
    [gpu_util |-> Some(<<"9", "9", " ", "%">>),
     total |-> Some(<<"1", "0", "0", "0", " ", "M", "i", "B">>),
     used |-> Some(<<"2", "9", "0", " ", "M", "i", "B">>)],
    \* 7: gpu_util 300 %, total 1024 MiB, used 4096 MiB
    [gpu_util |-> Some(<<"3", "0", "0", " ", "%">>),
     total |-> Some(<<"1", "0", "2", "4", " ", "M", "i", "B">>),
     used |-> Some(<<"4", "0", "9", "6", " ", "M", "i", "B">>)],
    \* 8: gpu_util 1 %, total 17592186044416 MiB, used 0 MiB
    [gpu_util |-> Some(<<"1", " ", "%">>),
     total |-> Some(<<"1", "7", "5", "9", "2", "1", "8", "6", "0", "4", "4", "4", "1", "6", " ", "M", "i", "B">>),
     used |-> Some(<<"0", " ", "M", "i", "B">>)]
  >>

\* xmltojson::to_json(&output).ok(): document 0 stands for text that is not
\* well-formed XML
to_json(doc) == IF doc = 0 THEN None ELSE Some(NvidiaDocs[doc])

\* serde_json::Value::to_string of g[..][..]: a missing leaf is Null and
\* prints as null, a string leaf prints between double quotes
to_string(leaf) ==
    IF leaf.some THEN <<"\"">> \o leaf.val \o <<"\"">> ELSE <<"n", "u", "l", "l">>

\* helpers::nvd_r2u64: the numeric prefix of a leaf such as "8192 MiB", with
\* the quotes and the trailing unit text stripped, parsed as u64
nvd_r2u64(res) ==
    LET bare == SelectSeq(res, LAMBDA c : c # "\"")
    IN  ParseU64(Split(bare, " ")[1])

\* what one run of nvidia-smi gives the probe: whether it could be spawned,
\* its exit status, whether its stdout is valid UTF-8, and the document
NvidiaRuns ==
    {[spawned |-> FALSE, exit_ok |-> FALSE, utf8 |-> FALSE, doc |-> 0]} \cup
    {[spawned |-> TRUE, exit_ok |-> e, utf8 |-> FALSE, doc |-> 0] : e \in BOOLEAN} \cup
    {[spawned |-> TRUE, exit_ok |-> e, utf8 |-> TRUE, doc |-> d] :
        e \in BOOLEAN, d \in 0..Len(NvidiaDocs)}

get_nvidia_gpu_info(run) ==
    IF ~run.spawned THEN None
    ELSE IF ~run.utf8 THEN None
    ELSE LET json == to_json(run.doc)
         IN  IF ~json.some THEN None
             ELSE LET g == json.val
                      gpu_usage == nvd_r2u64(to_string(g.gpu_util))
                      vram_max == nvd_r2u64(to_string(g.total))
                      vram_used == nvd_r2u64(to_string(g.used))
                  IN  IF ~gpu_usage.some \/ ~vram_max.some \/ ~vram_used.some
                      THEN None
                      ELSE Some(GpuInfo(gpu_usage.val, vram_max.val, vram_used.val))

----------------------------------------------------------------------------
(* Text the external tools and sysfs hand to the probes *)

\* lines of `ioreg -r -c IOAccelerator`
IoregRows ==
  <<
    \* 1: +-o AGXAcceleratorG13X  <class AGXAcceleratorG13X>
    <<"+", "-", "o", " ", "A", "G", "X", "A", "c", "c", "e", "l", "e", "r",
      "a", "t", "o", "r", "G", "1", "3", "X", " ", " ", "<", "c", "l", "a",
      "s", "s", " ", "A", "G", "X", "A", "c", "c", "e", "l", "e", "r", "a",
      "t", "o", "r", "G", "1", "3", "X", ">">>,
    \* 2: "model" = "Apple M1"
    <<" ", " ", " ", " ", "\"", "m", "o", "d", "e", "l", "\"", " ", "=", " ",
      "\"", "A", "p", "p", "l", "e", " ", "M", "1", "\"">>,
    \* 3: "PerformanceStatistics" = {"In use system memory"=1395294208,"Alloc system memory"=4731076608,"Device Utilization %"=12,"Tiler Utilization %"=0}
    <<" ", " ", " ", " ", "\"", "P", "e", "r", "f", "o", "r", "m", "a", "n",
      "c", "e", "S", "t", "a", "t", "i", "s", "t", "i", "c", "s", "\"", " ",
      "=", " ", "{", "\"", "I", "n", " ", "u", "s", "e", " ", "s", "y", "s",
      "t", "e", "m", " ", "m", "e", "m", "o", "r", "y", "\"", "=", "1", "3",
      "9", "5", "2", "9", "4", "2", "0", "8", ",", "\"", "A", "l", "l", "o",
      "c", " ", "s", "y", "s", "t", "e", "m", " ", "m", "e", "m", "o", "r",
      "y", "\"", "=", "4", "7", "3", "1", "0", "7", "6", "6", "0", "8", ",",
      "\"", "D", "e", "v", "i", "c", "e", " ", "U", "t", "i", "l", "i", "z",
      "a", "t", "i", "o", "n", " ", "%", "\"", "=", "1", "2", ",", "\"", "T",
      "i", "l", "e", "r", " ", "U", "t", "i", "l", "i", "z", "a", "t", "i",
      "o", "n", " ", "%", "\"", "=", "0", "}">>,
    \* 4: "PerformanceStatistics" = {"Alloc system memory"=1048576,"Device Utilization %"=100,"In use system memory"=3145728}
    <<" ", " ", " ", " ", "\"", "P", "e", "r", "f", "o", "r", "m", "a", "n",
      "c", "e", "S", "t", "a", "t", "i", "s", "t", "i", "c", "s", "\"", " ",
      "=", " ", "{", "\"", "A", "l", "l", "o", "c", " ", "s", "y", "s", "t",
      "e", "m", " ", "m", "e", "m", "o", "r", "y", "\"", "=", "1", "0", "4",
      "8", "5", "7", "6", ",", "\"", "D", "e", "v", "i", "c", "e", " ", "U",
      "t", "i", "l", "i", "z", "a", "t", "i", "o", "n", " ", "%", "\"", "=",
      "1", "0", "0", ",", "\"", "I", "n", " ", "u", "s", "e", " ", "s", "y",
      "s", "t", "e", "m", " ", "m", "e", "m", "o", "r", "y", "\"", "=", "3",
      "1", "4", "5", "7", "2", "8", "}">>,
    \* 5: "PerformanceStatistics" = {"Device Utilization %"=57
    <<" ", " ", " ", " ", "\"", "P", "e", "r", "f", "o", "r", "m", "a", "n",
      "c", "e", "S", "t", "a", "t", "i", "s", "t", "i", "c", "s", "\"", " ",
      "=", " ", "{", "\"", "D", "e", "v", "i", "c", "e", " ", "U", "t", "i",
      "l", "i", "z", "a", "t", "i", "o", "n", " ", "%", "\"", "=", "5", "7">>,
    \* 6: "IOClass" = "IntelAccelerator"
    <<" ", " ", " ", " ", "\"", "I", "O", "C", "l", "a", "s", "s", "\"", " ",
      "=", " ", "\"", "I", "n", "t", "e", "l", "A", "c", "c", "e", "l", "e",
      "r", "a", "t", "o", "r", "\"">>,
    \* 7: "model" = <"Intel Iris Pro">
    <<" ", " ", " ", " ", "\"", "m", "o", "d", "e", "l", "\"", " ", "=", " ",
      "<", "\"", "I", "n", "t", "e", "l", " ", "I", "r", "i", "s", " ", "P",
      "r", "o", "\"", ">">>,
    \* 8: "VRAM,totalMB" = 1536
    <<" ", " ", " ", " ", "\"", "V", "R", "A", "M", ",", "t", "o", "t", "a",
      "l", "M", "B", "\"", " ", "=", " ", "1", "5", "3", "6">>,
    \* 9: "VRAM,totalMB" = <2048>
    <<" ", " ", " ", " ", "\"", "V", "R", "A", "M", ",", "t", "o", "t", "a",
      "l", "M", "B", "\"", " ", "=", " ", "<", "2", "0", "4", "8", ">">>,
    \* 10: "VRAM,totalMB" = 0
    <<" ", " ", " ", " ", "\"", "V", "R", "A", "M", ",", "t", "o", "t", "a",
      "l", "M", "B", "\"", " ", "=", " ", "0">>,
    \* 11: "VRAM,totalMB" = <unknown>
    <<" ", " ", " ", " ", "\"", "V", "R", "A", "M", ",", "t", "o", "t", "a",
      "l", "M", "B", "\"", " ", "=", " ", "<", "u", "n", "k", "n", "o", "w",
      "n", ">">>
  >>

\* what `uname -m` prints
UnameOutputs ==
  <<
    \* 1: arm64
    <<"a", "r", "m", "6", "4", "\n">>,
    \* 2: x86_64
    <<"x", "8", "6", "_", "6", "4", "\n">>
  >>

\* contents of the files under /sys/class/drm/<node>/device
SysfsTexts ==
  <<
    \* 1: vendor of an Intel device
    <<"0", "x", "8", "0", "8", "6", "\n">>,
    \* 2: vendor of an NVIDIA device
    <<"0", "x", "1", "0", "d", "e", "\n">>,
    \* 3: 256 MiB in bytes
    <<"2", "6", "8", "4", "3", "5", "4", "5", "6", "\n">>,
    \* 4: no number
    <<"n", "/", "a", "\n">>
  >>

\* the literal AGXAccelerator
KeyAGX ==
    <<"A", "G", "X", "A", "c", "c", "e", "l", "e", "r", "a", "t", "o", "r">>

\* the literal "model" = "Apple
KeyAppleModel ==
    <<"\"", "m", "o", "d", "e", "l", "\"", " ", "=", " ", "\"", "A", "p",
      "p", "l", "e">>

\* the literal "PerformanceStatistics"
KeyPerf ==
    <<"\"", "P", "e", "r", "f", "o", "r", "m", "a", "n", "c", "e", "S", "t",
      "a", "t", "i", "s", "t", "i", "c", "s", "\"">>

\* the literal "Device Utilization %"=
KeyUtil ==
    <<"\"", "D", "e", "v", "i", "c", "e", " ", "U", "t", "i", "l", "i", "z",
      "a", "t", "i", "o", "n", " ", "%", "\"", "=">>

\* the literal "In use system memory"=
KeyInUse ==
    <<"\"", "I", "n", " ", "u", "s", "e", " ", "s", "y", "s", "t", "e", "m",
      " ", "m", "e", "m", "o", "r", "y", "\"", "=">>

\* the literal "Alloc system memory"=
KeyAlloc ==
    <<"\"", "A", "l", "l", "o", "c", " ", "s", "y", "s", "t", "e", "m", " ",
      "m", "e", "m", "o", "r", "y", "\"", "=">>

\* the literal "IOClass" = "IntelAccelerator"
KeyIntelClass ==
    <<"\"", "I", "O", "C", "l", "a", "s", "s", "\"", " ", "=", " ", "\"",
      "I", "n", "t", "e", "l", "A", "c", "c", "e", "l", "e", "r", "a", "t",
      "o", "r", "\"">>

\* the literal "model" = <"Intel
KeyIntelModel ==
    <<"\"", "m", "o", "d", "e", "l", "\"", " ", "=", " ", "<", "\"", "I",
      "n", "t", "e", "l">>

\* the literal "VRAM,totalMB"
KeyVram ==
    <<"\"", "V", "R", "A", "M", ",", "t", "o", "t", "a", "l", "M", "B", "\"">>

\* the literal intel
KeyIntel ==
    <<"i", "n", "t", "e", "l">>

\* the literal arm64
KeyArm64 ==
    <<"a", "r", "m", "6", "4">>

\* the literal 0x8086
KeyVendor ==
    <<"0", "x", "8", "0", "8", "6">>


\* lines wmic can print for `path win32_VideoController get Name,AdapterRAM /format:csv`
WmicRows ==
  <<
    \* 1: the header wmic prints: Node,AdapterRAM,Name
    <<"N", "o", "d", "e", ",", "A", "d", "a", "p", "t", "e", "r", "R", "A",
      "M", ",", "N", "a", "m", "e">>,
    \* 2: Video Controller,Intel(R) UHD Graphics,4294967296
    <<"V", "i", "d", "e", "o", " ", "C", "o", "n", "t", "r", "o", "l", "l",
      "e", "r", ",", "I", "n", "t", "e", "l", "(", "R", ")", " ", "U", "H",
      "D", " ", "G", "r", "a", "p", "h", "i", "c", "s", ",", "4", "2", "9",
      "4", "9", "6", "7", "2", "9", "6">>,
    \* 3: PC,4294967296,Intel(R) UHD Graphics
    <<"P", "C", ",", "4", "2", "9", "4", "9", "6", "7", "2", "9", "6", ",",
      "I", "n", "t", "e", "l", "(", "R", ")", " ", "U", "H", "D", " ", "G",
      "r", "a", "p", "h", "i", "c", "s">>,
    \* 4: PC,0,INTEL(R) HD Graphics
    <<"P", "C", ",", "0", ",", "I", "N", "T", "E", "L", "(", "R", ")", " ",
      "H", "D", " ", "G", "r", "a", "p", "h", "i", "c", "s">>,
    \* 5: PC,1073741824,NVIDIA GeForce
    <<"P", "C", ",", "1", "0", "7", "3", "7", "4", "1", "8", "2", "4", ",",
      "N", "V", "I", "D", "I", "A", " ", "G", "e", "F", "o", "r", "c", "e">>,
    \* 6: PC, 2147483648 ,intel iris
    <<"P", "C", ",", " ", "2", "1", "4", "7", "4", "8", "3", "6", "4", "8",
      " ", ",", "i", "n", "t", "e", "l", " ", "i", "r", "i", "s">>
  >>


\* the sequences over S of length at most n
SeqsUpTo(S, n) == UNION {[1..k -> S] : k \in 0..n}

\* the stdout of a tool that printed the rows of table named by ids, one per line
RECURSIVE Stdout(_, _)
Stdout(table, ids) ==
    IF ids = <<>> THEN <<>>
    ELSE table[Head(ids)] \o <<"\n">> \o Stdout(table, Tail(ids))

----------------------------------------------------------------------------
(* The macOS probes *)

\* lines of an ioreg dump
MaxRegistryLines == 2

\* the lines a dump is made of when the Apple-Silicon probe runs, and when the
\* Apple-Intel probe runs
SiliconDump == {1, 2, 3, 4, 5, 6}

IntelDump == {6, 7, 8, 9, 10, 11}

\* one run of a tool through Command::output: whether it could be run, its
\* exit status and the rows it printed
ToolRuns(rowset, n) ==
    {[spawned |-> FALSE, success |-> FALSE, rows |-> <<>>]} \cup
    {[spawned |-> TRUE, success |-> FALSE, rows |-> r] : r \in SeqsUpTo(rowset, 1)} \cup
    {[spawned |-> TRUE, success |-> TRUE, rows |-> r] : r \in SeqsUpTo(rowset, n)}

NotRun == [spawned |-> FALSE, success |-> FALSE, rows |-> <<>>]

\* uname -m (0: it could not be run), then ioreg if the architecture is arm64
SiliconRuns ==
    {[uname |-> u, ioreg |-> NotRun] : u \in {0, 2}} \cup
    {[uname |-> 1, ioreg |-> r] : r \in ToolRuns(SiliconDump, MaxRegistryLines)}

parse_ioreg_number(line, key, offset) ==
    LET start == Find(line, key)
    IN  IF start = 0 THEN None
        ELSE LET after_equals == From(line, start + offset)
                 end == IF \A i \in 1..Len(after_equals) : IsDigit(after_equals[i])
                        THEN 0
                        ELSE CHOOSE i \in 1..Len(after_equals) :
                                /\ ~IsDigit(after_equals[i])
                                /\ \A j \in 1..(i - 1) : IsDigit(after_equals[j])
             IN  IF end = 0 THEN None
                 ELSE ParseU64(SubSeq(after_equals, 1, end - 1))

\* the body of the loop over the lines of the dump, on the probe's locals
silicon_line(acc, line) ==
    LET perf == Contains(line, KeyPerf)
        usage == parse_ioreg_number(line, KeyUtil, 23)
        in_use == parse_ioreg_number(line, KeyInUse, 23)
        alloc == parse_ioreg_number(line, KeyAlloc, 22)
    IN  [is_apple_gpu |-> acc.is_apple_gpu \/ Contains(line, KeyAGX)
                             \/ Contains(line, KeyAppleModel),
         gpu_usage |-> IF perf /\ usage.some THEN usage.val ELSE acc.gpu_usage,
         vram_used |-> IF perf /\ in_use.some THEN ShiftRight(in_use.val, 2)
                       ELSE acc.vram_used,
         vram_max |-> IF perf /\ alloc.some THEN ShiftRight(alloc.val, 2)
                      ELSE acc.vram_max]

RECURSIVE silicon_scan(_, _)
silicon_scan(acc, lines) ==
    IF lines = <<>> THEN acc
    ELSE silicon_scan(silicon_line(acc, Head(lines)), Tail(lines))

get_apple_silicon_gpu_info(run) ==
    IF run.uname = 0 THEN None
    ELSE IF Trim(UnameOutputs[run.uname]) # KeyArm64 THEN None
    ELSE IF ~run.ioreg.spawned THEN None
    ELSE IF ~run.ioreg.success THEN None
    ELSE LET acc == silicon_scan([is_apple_gpu |-> FALSE, gpu_usage |-> Zero,
                                  vram_used |-> Zero, vram_max |-> Zero],
                                 Lines(Stdout(IoregRows, run.ioreg.rows)))
         IN  IF ~acc.is_apple_gpu THEN None
             ELSE Some(GpuInfo(acc.gpu_usage, acc.vram_max, acc.vram_used))

\* the number a "VRAM,totalMB" line carries, if it parses
vram_total_mb(line) ==
    LET equals_pos == Find(line, <<"=">>)
    IN  IF equals_pos = 0 THEN None
        ELSE LET after_equals == Trim(From(line, equals_pos + 1))
                 number_str == Trim(TrimEndMatches(TrimStartMatches(after_equals, "<"), ">"))
             IN  ParseU64(number_str)

intel_line_no_marker(acc, line) ==
    LET mb_val == IF Contains(line, KeyVram) THEN vram_total_mb(line) ELSE None
    IN  [is_intel |-> TRUE,
         vram_max |-> IF mb_val.some THEN mb_val.val ELSE acc.vram_max]

\* the body of the loop over the lines of the dump, on the probe's locals
intel_line(acc, line) ==
    LET mb_val == IF Contains(line, KeyVram) THEN vram_total_mb(line) ELSE None
    IN  [is_intel |-> acc.is_intel \/ Contains(line, KeyIntelClass)
                         \/ Contains(line, KeyIntelModel),
         vram_max |-> IF mb_val.some THEN mb_val.val ELSE acc.vram_max]

RECURSIVE intel_scan(_, _)
intel_scan(acc, lines) ==
    IF lines = <<>> THEN acc
    ELSE intel_scan(intel_line(acc, Head(lines)), Tail(lines))

get_macos_intel_gpu_info(run) ==
    IF ~run.spawned THEN None
    ELSE IF ~run.success THEN None
    ELSE LET acc == intel_scan([is_intel |-> FALSE, vram_max |-> Zero],
                               Lines(Stdout(IoregRows, run.rows)))
         IN  IF ~acc.is_intel \/ IsZero(acc.vram_max) THEN None
             ELSE Some(GpuInfo(Zero, acc.vram_max, Zero))

----------------------------------------------------------------------------
(* The Windows probe *)

\* lines of the wmic output
MaxCsvRows == 3

csv_row_third_column(line) ==
    IF Contains(ToLowercase(line), KeyIntel)
    THEN LET parts == Split(line, ",")
         IN  IF Len(parts) >= 3
             THEN LET ram_bytes == ParseU64(Trim(parts[3]))
                  IN  IF ram_bytes.some /\ ~IsZero(ram_bytes.val)
                      THEN Some(GpuInfo(Zero, ShiftRight(ram_bytes.val, 2), Zero))
                      ELSE None
             ELSE None
    ELSE None

\* the body of the loop over the rows: the sample the row makes the probe
\* return, if any.  parts[1] is the second column.
csv_row(line) ==
    IF Contains(ToLowercase(line), KeyIntel)
    THEN LET parts == Split(line, ",")
         IN  IF Len(parts) >= 2
             THEN LET ram_bytes == ParseU64(Trim(parts[2]))
                  IN  IF ram_bytes.some /\ ~IsZero(ram_bytes.val)
                      THEN Some(GpuInfo(Zero, ShiftRight(ram_bytes.val, 2), Zero))
                      ELSE None
             ELSE None
    ELSE None

RECURSIVE csv_scan(_)
csv_scan(lines) ==
    IF lines = <<>> THEN None
    ELSE LET r == csv_row(Head(lines))
         IN  IF r.some THEN r ELSE csv_scan(Tail(lines))

\* Iterator::skip(1)
Skip1(lines) == IF lines = <<>> THEN <<>> ELSE Tail(lines)

get_windows_intel_gpu_info(run) ==
    IF ~run.spawned THEN None
    ELSE IF ~run.success THEN None
    ELSE csv_scan(Skip1(Lines(Stdout(WmicRows, run.rows))))

----------------------------------------------------------------------------
(* The Linux probe, one directory entry at a time *)

\* entries of /sys/class/drm
MaxNodes == 2

\* what read_dir can yield: an entry that cannot be read, or a node whose
\* device/vendor and device/mem_info_vram_total files are unreadable (0) or
\* hold one of SysfsTexts
DirEntries ==
    {[ok |-> FALSE, vendor |-> 0, mem |-> 0]} \cup
    {[ok |-> TRUE, vendor |-> v, mem |-> t] : v \in {0, 1, 2}, t \in {0, 3, 4}}

\* std::fs::read_to_string
read_to_string(file) == IF file = 0 THEN None ELSE Some(SysfsTexts[file])

\* one pass of the loop body over a readable entry: [done, result]
drm_entry_any_vendor(e) ==
    LET vendor == read_to_string(e.vendor)
    IN  IF vendor.some
        THEN LET mem_str == read_to_string(e.mem)
                 mem_bytes == IF mem_str.some THEN ParseU64(Trim(mem_str.val)) ELSE None
             IN  IF mem_bytes.some
                 THEN [done |-> TRUE,
                       result |-> Some(GpuInfo(Zero, ShiftRight(mem_bytes.val, 2), Zero))]
                 ELSE [done |-> TRUE, result |-> None]
        ELSE [done |-> FALSE, result |-> None]

drm_entry(e) ==
    LET vendor == read_to_string(e.vendor)
    IN  IF vendor.some /\ Trim(vendor.val) = KeyVendor
        THEN LET mem_str == read_to_string(e.mem)
                 mem_bytes == IF mem_str.some THEN ParseU64(Trim(mem_str.val)) ELSE None
             IN  IF mem_bytes.some
                 THEN [done |-> TRUE,
                       result |-> Some(GpuInfo(Zero, ShiftRight(mem_bytes.val, 2), Zero))]
                 ELSE [done |-> TRUE, result |-> None]
        ELSE [done |-> FALSE, result |-> None]

----------------------------------------------------------------------------
(* The discovery chains.  Each takes the stage a probe was invoked at and  *)
(* what the probe returned, and gives where the call goes next.            *)

Continue(stage) == [pc |-> stage, gpu |-> None]

Return(gpu) == [pc |-> "build", gpu |-> gpu]

get_macos_gpu_info(stage, r) ==
    CASE stage = "mac_apple" -> IF r.some THEN Return(r) ELSE Continue("mac_intel")
      [] stage = "mac_intel" -> IF r.some THEN Return(r) ELSE Continue("mac_nvidia")
      [] OTHER -> Return(r)

get_generic_gpu_info_no_short_circuit(stage, r) ==
    CASE stage = "gen_nvidia" -> Continue("gen_intel")
      [] OTHER -> IF r.some THEN Return(r) ELSE Return(None)

get_generic_gpu_info(stage, r) ==
    CASE stage = "gen_nvidia" -> IF r.some THEN Return(r) ELSE Continue("gen_intel")
      [] OTHER -> IF r.some THEN Return(r) ELSE Return(None)

\* cfg(target_os = "macos") picks the chain
get_gpu_info(stage, r) ==
    IF platform = "macos" THEN get_macos_gpu_info(stage, r)
    ELSE get_generic_gpu_info(stage, r)

----------------------------------------------------------------------------
(* SystemInfo::get_system_info *)

\* the quotients n/100 whose f64 image, times 100.0, lies just below n
F64Low == {29, 57, 58, 113, 114, 115, 116, 201, 203, 205, 207, 226, 228,
           230, 232, 251, 253, 255}

\* the largest p in lo..hi with p * t <= h, by bisection (lo * t <= h)
RECURSIVE Quotient(_, _, _, _)
Quotient(t, h, lo, hi) ==
    IF lo = hi THEN lo
    ELSE LET mid == (lo + hi + 1) \div 2
         IN  IF Leq(MulAdd(t, mid, 0), h) THEN Quotient(t, h, mid, hi)
             ELSE Quotient(t, h, lo, mid - 1)

\* (used as f64 / total as f64 * 100.0) as u8 for total > 0: the quotient is
\* truncated and saturates at 255.  Both roundings together move the product
\* by less than 2^-44, so for total < 2^44 a quotient that is no integer keeps
\* its integer part; one that is the integer n is RN(RN(n / 100) * 100), which
\* is n or just below n.
Percent(used, total) ==
    LET h == MulAdd(used, 100, 0)
        n == Quotient(total, h, 0, 256)
    IN  IF n = 256 THEN U8Max
        ELSE IF MulAdd(total, n, 0) = h /\ n \in F64Low THEN n - 1
        ELSE n

\* helpers::avg_vecu32: the mean of the per-core usages, truncated
RECURSIVE Sum(_)
Sum(v) == IF v = <<>> THEN 0 ELSE Head(v) + Sum(Tail(v))

avg_vecu32(v) == Sum(v) \div Len(v)

\* helpers::pop_4u8: the label's bytes in a 4-byte buffer, zero padded
NUL == "NUL"

pop_4u8(bytes) == [i \in 1..4 |-> IF i <= Len(bytes) THEN bytes[i] ELSE NUL]

\* gi.vram_max * vram_mult, before the check for overflow
vram_bytes(gpu) == IF gpu.some THEN ShiftLeft(gpu.val.vram_max, 2) ELSE Zero

vram_usage_of(gpu, vram_max) ==
    IF gpu.some /\ ~IsZero(vram_max)
    THEN Percent(ShiftLeft(gpu.val.vram_used, 2), vram_max)
    ELSE U8Max

\* a division by zero in f64: 0/0 is NaN and casts to 0, x/0 is +inf and
\* saturates
ram_usage_of(used, total) ==
    IF IsZero(total) THEN (IF IsZero(used) THEN 0 ELSE U8Max)
    ELSE Percent(used, total)

gpu_usage_zero(gpu) == IF gpu.some THEN gpu.val.gpu_usage[1] % 256 ELSE 0

\* gi.gpu_usage as u8 keeps the low 8 bits
gpu_usage_of(gpu) == IF gpu.some THEN gpu.val.gpu_usage[1] % 256 ELSE U8Max

\* the record get_system_info returns; vram_max is gi.vram_max * vram_mult
\* in 64 bits
get_system_info(mem, gpu, cpus, vram_max) ==
    LET r == scaled_magnitude(mem.total, Base)
        v == scaled_magnitude(vram_max, Base)
    IN  [cpu_usage |-> avg_vecu32(cpus) % 256,
         ram_max |-> r.value,
         ram_usage |-> ram_usage_of(mem.used, mem.total),
         ram_unit |-> pop_4u8(r.unit),
         gpu_usage |-> gpu_usage_of(gpu),
         vram_max |-> v.value,
         vram_usage |-> vram_usage_of(gpu, vram_max),
         vram_unit |-> pop_4u8(v.unit)]

----------------------------------------------------------------------------
(* The state machine *)

Platforms == {"macos", "linux", "windows", "other"}

\* total_memory() and used_memory() after refresh_memory_specifics
MemoryReports ==
    {[total |-> Zero, used |-> Zero],
     [total |-> Zero, used |-> FromNat(1)],
     [total |-> FromNat(1024), used |-> FromNat(1024)],
     [total |-> FromNat(104857600), used |-> FromNat(30408704)],
     [total |-> Around(16, 3, 0), used |-> Around(4, 3, 0)]}

\* cpu_usage() as u32 of each core after refresh_cpu_usage
CpuReports == {<<0>>, <<100, 51>>}

Init ==
    /\ platform \in Platforms
    /\ pc = "idle"
    /\ ram = None
    /\ invoked = <<>>
    /\ io = None
    /\ ret = None
    /\ returned = <<>>
    /\ gpu_info = None
    /\ drm = None
    /\ snapshot = None
    /\ m = Zero
    /\ scaled = None

\* get_system_info up to the call of get_gpu_info: refresh the memory figures
\* and read the total.  The function keeps nothing from one call to the next
\* (every variable below is a local of the call), so one call is modelled.
Start ==
    /\ pc = "idle"
    /\ \E r \in MemoryReports : ram' = r
    /\ pc' = IF platform = "macos" THEN "mac_apple" ELSE "gen_nvidia"
    /\ invoked' = <<>>
    /\ io' = None
    /\ ret' = None
    /\ returned' = <<>>
    /\ gpu_info' = None
    /\ drm' = None
    /\ snapshot' = None
    /\ UNCHANGED <<platform, m, scaled>>

\* every run a probe can meet, with what the probe returns on it
NvidiaOutcomes ==
    {[run |-> run, result |-> get_nvidia_gpu_info(run)] : run \in NvidiaRuns}

SiliconOutcomes ==
    {[run |-> run, result |-> get_apple_silicon_gpu_info(run)] : run \in SiliconRuns}

MacosIntelOutcomes ==
    {[run |-> run, result |-> get_macos_intel_gpu_info(run)] :
        run \in ToolRuns(IntelDump, MaxRegistryLines)}

WindowsIntelOutcomes ==
    {[run |-> run, result |-> get_windows_intel_gpu_info(run)] :
        run \in ToolRuns(1..Len(WmicRows), MaxCsvRows)}

\* a probe invoked at the current stage consumed input and returned r
Probed(name, input, r) ==
    LET next == get_gpu_info(pc, r)
    IN  /\ invoked' = Append(invoked, name)
        /\ io' = input
        /\ ret' = r
        /\ returned' = Append(returned, r)
        /\ pc' = next.pc
        /\ gpu_info' = next.gpu
        /\ UNCHANGED <<platform, ram, snapshot, m, scaled>>

NvidiaProbe ==
    /\ pc \in {"gen_nvidia", "mac_nvidia"}
    /\ \E o \in NvidiaOutcomes : Probed("nvidia", o.run, o.result)
    /\ UNCHANGED drm

AppleSiliconProbe ==
    /\ pc = "mac_apple"
    /\ \E o \in SiliconOutcomes : Probed("apple_silicon", o.run, o.result)
    /\ UNCHANGED drm

MacosIntelProbe ==
    /\ pc = "mac_intel"
    /\ \E o \in MacosIntelOutcomes : Probed("macos_intel", o.run, o.result)
    /\ UNCHANGED drm

WindowsIntelProbe ==
    /\ pc = "gen_intel"
    /\ platform = "windows"
    /\ \E o \in WindowsIntelOutcomes : Probed("windows_intel", o.run, o.result)
    /\ UNCHANGED drm

\* get_linux_intel_gpu_info up to the loop: /sys/class/drm is missing, cannot
\* be listed, or is opened
LinuxIntelOpen ==
    /\ pc = "gen_intel"
    /\ platform = "linux"
    /\ \E tree \in {"missing", "unreadable", "listed"} :
          IF tree = "listed"
          THEN /\ pc' = "drm_walk"
               /\ invoked' = Append(invoked, "linux_intel")
               /\ io' = [tree |-> tree]
               /\ drm' = Some(<<>>)
               /\ UNCHANGED <<platform, ram, ret, returned, gpu_info, snapshot, m, scaled>>
          ELSE /\ Probed("linux_intel", [tree |-> tree], None)
               /\ drm' = None

\* one turn of the loop over entries.flatten(): the next entry, or the end of
\* the directory
LinuxIntelEntry ==
    /\ pc = "drm_walk"
    /\ \/ \E e \in DirEntries :
            /\ Len(drm.val) < MaxNodes
            /\ drm' = Some(Append(drm.val, e))
            /\ LET step == IF e.ok THEN drm_entry(e) ELSE [done |-> FALSE, result |-> None]
                   next == get_gpu_info("gen_intel", step.result)
               IN  IF step.done
                   THEN /\ ret' = step.result
                        /\ returned' = Append(returned, step.result)
                        /\ pc' = next.pc
                        /\ gpu_info' = next.gpu
                   ELSE UNCHANGED <<ret, returned, pc, gpu_info>>
       \/ /\ drm' = drm
          /\ LET next == get_gpu_info("gen_intel", None)
             IN  /\ ret' = None
                 /\ returned' = Append(returned, None)
                 /\ pc' = next.pc
                 /\ gpu_info' = next.gpu
    /\ UNCHANGED <<platform, ram, invoked, io, snapshot, m, scaled>>

\* get_intel_gpu_info on a target that is neither windows nor linux
IntelUnsupported ==
    /\ pc = "gen_intel"
    /\ platform = "other"
    /\ Probed("intel_none", None, None)
    /\ UNCHANGED drm

\* the rest of get_system_info: the VRAM figures, refresh_cpu_usage and the
\* record.  gi.vram_max * vram_mult overflows 64 bits from 2^44 MiB on: a
\* build with overflow checks panics there, one without wraps.
Build ==
    /\ pc = "build"
    /\ LET product == vram_bytes(gpu_info)
       IN  \/ /\ ~IsU64(product)
              /\ pc' = "panicked"
              /\ snapshot' = None
           \/ /\ pc' = "done"
              /\ \E cpus \in CpuReports :
                    snapshot' = Some(get_system_info(ram, gpu_info, cpus, WrapU64(product)))
    /\ UNCHANGED <<platform, ram, invoked, io, ret, returned, gpu_info, drm, m, scaled>>

Next ==
    \/ Start
    \/ AppleSiliconProbe
    \/ MacosIntelProbe
    \/ NvidiaProbe
    \/ WindowsIntelProbe
    \/ LinuxIntelOpen
    \/ LinuxIntelEntry
    \/ IntelUnsupported
    \/ Build

Spec == Init /\ [][Next]_vars

----------------------------------------------------------------------------
(* SpecScale: the unit scaler as a pure function of one magnitude *)

\* magnitudes are taken around the powers 1024^0 .. 1024^MaxPow
MaxPow == 6

Magnitudes ==
    {Zero, U64Max} \cup
    {x \in {Around(c, k, d) : c \in {1, 2, 10, 1023}, k \in 0..MaxPow, d \in {-1, 0, 1}} :
        IsU64(x)}

InitScale ==
    /\ m \in Magnitudes
    /\ scaled = None
    /\ platform = "linux"
    /\ pc = "idle"
    /\ ram = None
    /\ invoked = <<>>
    /\ io = None
    /\ ret = None
    /\ returned = <<>>
    /\ gpu_info = None
    /\ drm = None
    /\ snapshot = None

ApplyScale ==
    /\ ~scaled.some
    /\ scaled' = Some(scaled_magnitude(m, Base))
    /\ UNCHANGED <<platform, pc, ram, invoked, io, ret, returned, gpu_info, drm, snapshot, m>>

NextScale == ApplyScale

SpecScale == InitScale /\ [][NextScale]_vars

----------------------------------------------------------------------------
(* Claims about the unit scaler, under SpecScale *)

PowersOfBase == {Pow1024(k) : k \in 1..5}

\* C5, as stated: for every u64 magnitude the scaled value is below 10240.
C5_ScaledBelow10240 == scaled.some => scaled.val.value < 10240

\* C5, amended: for every magnitude up to 1024^5 the scaled value lies in
\* [0, 10240], and it is 10240 exactly at the powers 1024^1 .. 1024^5 (the
\* comparison in get_exp is strict, so a power keeps the lower exponent); it
\* never saturates the 16-bit field there.
C5_ScaledAtMost10240 ==
    (scaled.some /\ Leq(m, Pow1024(5))) =>
        /\ scaled.val.value \in 0..10240
        /\ scaled.val.value = 10240 <=> m \in PowersOfBase

C5_Witness == scaled.some /\ m = Pow1024(5) /\ scaled.val.value = 10240

\* C6, as stated: get_exp(1024, 1024) is 1.
C6_ExpOfBaseIsOne == (scaled.some /\ m = FromNat(1024)) => scaled.val.exp = 1

\* C6, amended: get_exp(1024, 1024) is 0, and the magnitude is labelled "B";
\* 1025 is the first magnitude with exponent 1.
C6_ExpOfBaseIsZero ==
    /\ (scaled.some /\ m = FromNat(1024)) =>
            scaled.val.exp = 0 /\ scaled.val.unit = <<"B">>
    /\ (scaled.some /\ m = FromNat(1025)) => scaled.val.exp = 1

C6_Witness == scaled.some /\ m = FromNat(1024) /\ scaled.val.exp = 0

----------------------------------------------------------------------------
(* Claims about the discovery chain and the snapshot, under Spec *)

\* the fixed order of the probes on each platform
Order ==
    [p \in Platforms |->
        CASE p = "macos" -> <<"apple_silicon", "macos_intel", "nvidia">>
          [] p = "linux" -> <<"nvidia", "linux_intel">>
          [] p = "windows" -> <<"nvidia", "windows_intel">>
          [] OTHER -> <<"nvidia", "intel_none">>]

Discovered == pc \in {"build", "done", "panicked"}

LastInvoked == IF invoked = <<>> THEN "" ELSE invoked[Len(invoked)]

\* C1: the probes invoked are a prefix of the platform's order; a probe is
\* invoked only after every earlier one returned nothing; discovery ends with
\* the first sample returned, and with "no GPU" exactly when every probe of
\* the order has returned nothing.
C1_ChainIsLazyPrefix ==
    platform \in {"macos", "linux", "windows"} =>
        /\ Len(invoked) <= Len(Order[platform])
        /\ \A i \in 1..Len(invoked) : invoked[i] = Order[platform][i]
        /\ Len(returned) \in {Len(invoked) - 1, Len(invoked)} \cap Nat
        /\ \A i \in 1..Len(returned) : i < Len(invoked) => ~returned[i].some
        /\ Discovered =>
             /\ Len(returned) = Len(invoked)
             /\ Len(invoked) >= 1
             /\ gpu_info = returned[Len(returned)]
             /\ ~gpu_info.some <=>
                   /\ Len(returned) = Len(Order[platform])
                   /\ \A i \in 1..Len(returned) : ~returned[i].some

C1_Witness ==
    /\ platform = "macos"
    /\ pc = "done"
    /\ invoked = <<"apple_silicon", "macos_intel">>
    /\ gpu_info.some

\* C2: a snapshot built when discovery obtained no sample has gpu_usage 255,
\* vram_max 0 and vram_usage 255.
C2_NoGpuSentinels ==
    (snapshot.some /\ ~gpu_info.some) =>
        /\ snapshot.val.gpu_usage = 255
        /\ snapshot.val.vram_max = 0
        /\ snapshot.val.vram_usage = 255

C2_Witness ==
    /\ snapshot.some
    /\ ~gpu_info.some
    /\ Len(returned) = Len(Order[platform])
    /\ snapshot.val.gpu_usage = 255

\* C3, as stated: when nvidia-smi exits with a non-zero status the NVIDIA
\* probe returns nothing, whatever it printed, and where NVIDIA precedes
\* Intel the chain goes on to the Intel probe.
C3_NonZeroExitYieldsNothing ==
    (LastInvoked = "nvidia" /\ io.spawned /\ ~io.exit_ok) =>
        /\ ~ret.some
        /\ platform \in {"linux", "windows"} => pc = "gen_intel"

\* C4, as stated: a total of zero under a usage percentage gives the
\* sentinel 255, for RAM and for VRAM, whatever the used value is.
C4_ZeroTotalIsSentinel ==
    snapshot.some =>
        /\ IsZero(ram.total) => snapshot.val.ram_usage = 255
        /\ (gpu_info.some /\ IsZero(gpu_info.val.vram_max)) =>
                snapshot.val.vram_usage = 255

\* C7, as stated: vram_usage is a percentage in 0..100 or the sentinel 255,
\* for every sample a probe can return.
C7_VramUsageIsPercentOrSentinel ==
    snapshot.some => snapshot.val.vram_usage \in (0..100) \cup {255}

----------------------------------------------------------------------------
(* Claims about single probes, under Spec *)

\* a row that makes the Windows probe return: it names intel in any case and
\* its second comma-separated column, trimmed, is a positive number of bytes
RowBytes(row) ==
    LET parts == Split(row, ",")
    IN  IF Len(parts) >= 2 THEN ParseU64(Trim(parts[2])) ELSE None

RowQualifies(row) ==
    /\ Contains(ToLowercase(row), KeyIntel)
    /\ RowBytes(row).some
    /\ ~IsZero(RowBytes(row).val)

\* the Windows probe has just returned, and wmic had run and succeeded
WindowsRan ==
    LastInvoked = "windows_intel" /\ pc = "build" /\ io.spawned /\ io.success

\* C8, as stated: the header followed by the row
\* `Video Controller,Intel(R) UHD Graphics,4294967296` gives vram_max = 4096
\* MiB with gpu_usage = 0 and vram_used = 0.
C8_SpecRowGives4096 ==
    (WindowsRan /\ io.rows = <<1, 2>>) =>
        ret = Some(GpuInfo(Zero, FromNat(4096), Zero))

\* C8, amended: that row gives nothing, because the probe reads the byte
\* count from the second column (wmic prints Node,AdapterRAM,Name); the row
\* `PC,4294967296,Intel(R) UHD Graphics` gives vram_max = 4096 MiB with
\* gpu_usage = 0 and vram_used = 0.  In general the probe returns on the
\* first row after the first line that names intel, in any case, and whose
\* second column, trimmed, parses to a positive byte count, with vram_max
\* that count divided by 2^20; it returns nothing when no row does.
C8_SecondColumnDecides ==
    WindowsRan =>
        LET rows == [i \in 1..Len(io.rows) |-> WmicRows[io.rows[i]]]
            hits == {i \in 2..Len(rows) : RowQualifies(rows[i])}
        IN  /\ io.rows = <<1, 2>> => ~ret.some
            /\ io.rows = <<1, 3>> => ret = Some(GpuInfo(Zero, FromNat(4096), Zero))
            /\ hits = {} => ~ret.some
            /\ hits # {} =>
                 LET first == CHOOSE i \in hits : \A j \in hits : i <= j
                 IN  ret = Some(GpuInfo(Zero, ShiftRight(RowBytes(rows[first]).val, 2), Zero))

C8_Witness ==
    /\ WindowsRan
    /\ io.rows = <<1, 4, 3>>
    /\ ret = Some(GpuInfo(Zero, FromNat(4096), Zero))

HasIntelMarker(row) == Contains(row, KeyIntelClass) \/ Contains(row, KeyIntelModel)

HasVramKey(row) == Contains(row, KeyVram)

\* C9: the Apple-Intel probe returns a sample only if some line of the dump
\* carries an Intel marker and some "VRAM,totalMB" line carries a non-zero
\* integer; a dump with a marker and no "VRAM,totalMB" line gives nothing;
\* a sample it returns has gpu_usage = 0 and vram_used = 0.
C9_IntelNeedsMarkerAndVram ==
    (LastInvoked = "macos_intel" /\ pc \in {"mac_nvidia", "build"}) =>
        LET rows == [i \in 1..Len(io.rows) |-> IoregRows[io.rows[i]]]
        IN  /\ ret.some =>
                 /\ io.spawned /\ io.success
                 /\ \E i \in 1..Len(rows) : HasIntelMarker(rows[i])
                 /\ \E i \in 1..Len(rows) :
                       /\ HasVramKey(rows[i])
                       /\ vram_total_mb(rows[i]).some
                       /\ ~IsZero(vram_total_mb(rows[i]).val)
                 /\ ret.val.gpu_usage = Zero
                 /\ ret.val.vram_used = Zero
                 /\ ~IsZero(ret.val.vram_max)
            /\ ((\E i \in 1..Len(rows) : HasIntelMarker(rows[i]))
                    /\ \A i \in 1..Len(rows) : ~HasVramKey(rows[i])) => ~ret.some

C9_Witness ==
    /\ LastInvoked = "macos_intel"
    /\ io.rows = <<7, 9>>
    /\ ret = Some(GpuInfo(Zero, FromNat(2048), Zero))

\* a node whose vendor file is readable and reads as 0x8086
IsIntelNode(e) ==
    e.ok /\ e.vendor # 0 /\ Trim(SysfsTexts[e.vendor]) = KeyVendor

NodeBytes(e) == IF e.mem = 0 THEN None ELSE ParseU64(Trim(SysfsTexts[e.mem]))

\* C10: the Linux-Intel probe stops at the first node whose vendor reads as
\* 0x8086 (no node is examined after it); it returns a sample there if
\* mem_info_vram_total is readable and parses, and nothing otherwise; nodes
\* with an unreadable or other vendor are skipped; with no such node it
\* returns nothing.
C10_StopsAtFirstIntelNode ==
    (platform = "linux" /\ drm.some) =>
        LET seen == drm.val
            n == Len(seen)
        IN  /\ \A j \in 1..(n - 1) : ~IsIntelNode(seen[j])
            /\ pc = "drm_walk" => \A j \in 1..n : ~IsIntelNode(seen[j])
            /\ Discovered =>
                 IF n >= 1 /\ IsIntelNode(seen[n])
                 THEN IF NodeBytes(seen[n]).some
                      THEN ret = Some(GpuInfo(Zero, ShiftRight(NodeBytes(seen[n]).val, 2), Zero))
                      ELSE ~ret.some
                 ELSE ~ret.some

C10_Witness ==
    /\ platform = "linux"
    /\ pc = "done"
    /\ drm.some
    /\ Len(drm.val) = 2
    /\ drm.val[1] = [ok |-> TRUE, vendor |-> 2, mem |-> 3]
    /\ drm.val[2] = [ok |-> TRUE, vendor |-> 1, mem |-> 3]
    /\ ret = Some(GpuInfo(Zero, FromNat(256), Zero))

====
